---------------------------- MODULE Spec2Model ----------------------------
(***************************************************************************)
(* Falling-object detection core: the Hungarian assignment solver          *)
(* (LAPSolver, src/src/tracker/lap_solver.cpp) and the SORT tracker        *)
(* (SortTracker, tracker.cpp) that calls it.                               *)
(*                                                                         *)
(* Matrices are records [rows, cols, at] with 0-based indices, as cv::Mat. *)
(* Costs are integers: every float the solver computes from integer-valued *)
(* costs of this size is exact, so == 0.0F is integer equality.            *)
(***************************************************************************)
EXTENDS Integers, Sequences, FiniteSets, TLC

VARIABLES
    cost,       \* LAPSolver::solve argument: the caller's cost matrix
    maximize,   \* LAPSolver::solve argument
    lap,        \* the LAPSolver object and the position inside solve
    params,     \* SortTracker: the constructor's arguments
    tracks,     \* SortTracker::_tracks, tag -> TrackedBBox
    trajectories, \* SortTracker::_trajectories, tag -> Trajectory
    tagCount,   \* SortTracker::_tagCount
    frameCount, \* SortTracker::_frameCount
    issued,     \* history: the tags getUnusedTag returned, in order, each
                \* with the number of clear calls made before it
    clears,     \* history: number of clear calls
    callbacks,  \* history: tag -> number of trajectory-ended callbacks
    vibe,       \* the ViBeSequential object and its last call, seen at one pixel,
                \* or over the image with its tables and the scans of update
    driver,     \* main: its VideoReader and the read in progress, or
                \* maxNumBlobs, and of the last frame read numFgBlobs and
                \* the tracker call made for it
    last        \* history: the last call, its detections, the tracks it expired, the
                \* trajectories it swept, those it reported and those it dropped,
                \* and of an update _matches, _matchesReversed and the IoU of
                \* the assigned pairs

lapVars == <<cost, maximize, lap>>

trackerVars == <<params, tracks, trajectories, tagCount, frameCount, issued,
                 clears, callbacks, last>>

vars == <<cost, maximize, lap, params, tracks, trajectories, tagCount,
          frameCount, issued, clears, callbacks, last, vibe, driver>>

-----------------------------------------------------------------------------
(* Bounds of the explored inputs *)

MaxDim == 3

MaxCells == 9

MaxCost == 1

\* SortTracker: number of update calls and number of tags issued in a run
MaxFrames == 4

MaxTags == 2

\* SortTracker: detections in one update, and entries of one IoU matrix
MaxDet == 2

MaxIouCells == 4

\* falling-bottle run: updates without detections after the last frame
MaxTail == 5

\* ViBeSequential: samples per pixel, raw L1 threshold, minimum number of
\* close samples, and calls in a run
MaxSamples == 2

MaxThreshold == 1

MaxKappa == 3

MaxCalls == 2

\* the largest --max_blob_count explored
MaxBlobCount == 2

-----------------------------------------------------------------------------
(* cv::Mat helpers *)

Idx(k) == 0 .. (k - 1)

Mat(r, c, v) == [rows |-> r, cols |-> c, at |-> v]

EmptyMat == Mat(0, 0, <<>>)

Transposed(a) ==
    Mat(a.cols, a.rows, [j \in Idx(a.cols) |-> [i \in Idx(a.rows) |-> a.at[i][j]]])

Negated(a) ==
    Mat(a.rows, a.cols, [i \in Idx(a.rows) |-> [j \in Idx(a.cols) |-> 0 - a.at[i][j]]])

FromRows(seq) ==
    Mat(Len(seq), Len(seq[1]),
        [i \in Idx(Len(seq)) |-> [j \in Idx(Len(seq[1])) |-> seq[i + 1][j + 1]]])

MinOf(S) == CHOOSE x \in S : \A y \in S : x <= y

MaxOf(S) == CHOOSE x \in S : \A y \in S : x >= y

\* std::numeric_limits<float>::max(), as a value above every cost of the model
FltMax == 1000000

-----------------------------------------------------------------------------
(* LAPSolver: the object's fields and the locals of solve, as one record.   *)
(* markerTable is the [0,_m) x [0,_n) window that solve resets and that    *)
(* every later step reads; fault records an index of -1 used as a          *)
(* subscript; emptyAdjust records adjustCost run with nothing uncovered;   *)
(* found is the zero the last search of primeUncoveredZeros returned and   *)
(* first the first uncovered zero in row-major order at that moment.       *)

Idle ==
    [pc |-> "idle", m |-> 0, n |-> 0, isTransposed |-> FALSE,
     workingCost |-> <<>>, markerTable |-> <<>>,
     coveredRow |-> <<>>, coveredCol |-> <<>>,
     hasStarredZeroInRow |-> <<>>, hasStarredZeroInCol |-> <<>>,
     i |-> 0, j |-> 0, path0 |-> <<0, 0>>,
     assignment |-> <<>>, assignmentReversed |-> <<>>, total |-> 0,
     fault |-> FALSE, emptyAdjust |-> FALSE,
     found |-> <<-1, -1>>, first |-> <<-1, -1>>]

\* a faulty solveEmpty that leaves the outputs as they were
solveEmptyMutant(c, mx) ==
    [Idle EXCEPT !.pc = "done",
                 !.assignment = [i \in Idx(c.rows) |-> -1],
                 !.assignmentReversed = [j \in Idx(c.cols) |-> IF c.rows = 0 THEN j ELSE -1]]

\* lines 23-38: resize and clear the outputs, return 0 on an empty matrix
solveEmpty(c, mx) ==
    [Idle EXCEPT !.pc = "done",
                 !.assignment = [i \in Idx(c.rows) |-> -1],
                 !.assignmentReversed = [j \in Idx(c.cols) |-> -1]]

\* a faulty solveSetup that does not negate when maximizing
solveSetupMutant(c, mx) ==
    LET tr == c.rows > c.cols
        w0 == IF tr THEN Transposed(c) ELSE c
        w  == w0
    IN  [Idle EXCEPT !.pc = "reduceRows",
                     !.m = w.rows, !.n = w.cols, !.isTransposed = tr,
                     !.workingCost = w.at,
                     !.markerTable = [i \in Idx(w.rows) |-> [j \in Idx(w.cols) |-> "NONE"]],
                     !.coveredRow = [i \in Idx(w.rows) |-> FALSE],
                     !.coveredCol = [j \in Idx(w.cols) |-> FALSE],
                     !.hasStarredZeroInRow = [i \in Idx(w.rows) |-> FALSE],
                     !.hasStarredZeroInCol = [j \in Idx(w.cols) |-> FALSE],
                     !.assignment = [i \in Idx(c.rows) |-> -1],
                     !.assignmentReversed = [j \in Idx(c.cols) |-> -1]]

\* lines 40-88: transpose when rows > cols, negate when maximizing, reset tables
solveSetup(c, mx) ==
    LET tr == c.rows > c.cols
        w0 == IF tr THEN Transposed(c) ELSE c
        w  == IF mx THEN Negated(w0) ELSE w0
    IN  [Idle EXCEPT !.pc = "reduceRows",
                     !.m = w.rows, !.n = w.cols, !.isTransposed = tr,
                     !.workingCost = w.at,
                     !.markerTable = [i \in Idx(w.rows) |-> [j \in Idx(w.cols) |-> "NONE"]],
                     !.coveredRow = [i \in Idx(w.rows) |-> FALSE],
                     !.coveredCol = [j \in Idx(w.cols) |-> FALSE],
                     !.hasStarredZeroInRow = [i \in Idx(w.rows) |-> FALSE],
                     !.hasStarredZeroInCol = [j \in Idx(w.cols) |-> FALSE],
                     !.assignment = [i \in Idx(c.rows) |-> -1],
                     !.assignmentReversed = [j \in Idx(c.cols) |-> -1]]

solveBegin(c, mx) ==
    IF c.rows = 0 \/ c.cols = 0 THEN solveEmpty(c, mx) ELSE solveSetup(c, mx)

\* lines 124-132: subtract each row's minimum from the row
reduceRows(s) ==
    [s EXCEPT !.pc = "findInitialStarredZeros",
              !.workingCost =
                  [i \in Idx(s.m) |->
                      LET minVal == MinOf({s.workingCost[i][j] : j \in Idx(s.n)})
                      IN  [j \in Idx(s.n) |-> s.workingCost[i][j] - minVal]]]

\* lines 144-158: in row order, star the first zero of the row whose column
\* holds no star yet
\* (here and below the arguments are bound once, so that each step of the
\* recursion works on values)
RECURSIVE starRowsFrom(_, _)
starRowsFrom(s0, i0) ==
    LET from(s, i) ==
            IF i >= s.m THEN s
            ELSE LET zs == {j \in Idx(s.n) : ~s.hasStarredZeroInCol[j] /\ s.workingCost[i][j] = 0}
                 IN  IF zs = {} THEN starRowsFrom(s, i + 1)
                     ELSE LET j == MinOf(zs)
                          IN  starRowsFrom([s EXCEPT !.markerTable[i][j] = "STAR",
                                                     !.hasStarredZeroInRow[i] = TRUE,
                                                     !.hasStarredZeroInCol[j] = TRUE], i + 1)
    IN  CHOOSE r \in {from(v[1], v[2]) : v \in {<<s0, i0>>}} : TRUE

findInitialStarredZeros(s) == [starRowsFrom(s, 0) EXCEPT !.pc = "coverCols"]

\* lines 160-170 and the loop test of lines 95-99
numColsCovered(s) == Cardinality({j \in Idx(s.n) : s.hasStarredZeroInCol[j]})

\* a faulty loop test that waits for a star in every column
coverColsWithStarredZerosMutant(s) ==
    [s EXCEPT !.coveredCol = [j \in Idx(s.n) |-> s.coveredCol[j] \/ s.hasStarredZeroInCol[j]],
              !.pc = IF numColsCovered(s) = s.n THEN "assign" ELSE "prime",
              !.i = 0, !.j = 0]

coverColsWithStarredZeros(s) ==
    [s EXCEPT !.coveredCol = [j \in Idx(s.n) |-> s.coveredCol[j] \/ s.hasStarredZeroInCol[j]],
              !.pc = IF numColsCovered(s) = s.m THEN "assign" ELSE "prime",
              !.i = 0, !.j = 0]

\* the set of uncovered zeros of the working matrix
UncoveredZeros(s) ==
    {p \in Idx(s.m) \X Idx(s.n) :
        ~s.coveredRow[p[1]] /\ ~s.coveredCol[p[2]] /\ s.workingCost[p[1]][p[2]] = 0}

RowMajorFirst(P) ==
    IF P = {} THEN <<-1, -1>>
    ELSE CHOOSE p \in P : \A q \in P : p[1] < q[1] \/ (p[1] = q[1] /\ p[2] <= q[2])

\* lines 173-191: rows from i on, and in each of them columns from j on
findUncoveredZero(s, i, j) ==
    RowMajorFirst({p \in UncoveredZeros(s) : p[1] >= i /\ p[2] >= j})

\* lines 193-201
locateStarredZeroInRow(s, i) ==
    LET js == {j \in Idx(s.n) : s.markerTable[i][j] = "STAR"}
    IN  IF js = {} THEN -1 ELSE MinOf(js)

\* lines 313-341
adjustCost(s) ==
    LET unc == {s.workingCost[p[1]][p[2]] : p \in
                   {q \in Idx(s.m) \X Idx(s.n) : ~s.coveredRow[q[1]] /\ ~s.coveredCol[q[2]]}}
        minUncoveredCost == IF unc = {} THEN FltMax
                            ELSE IF MinOf(unc) < FltMax THEN MinOf(unc) ELSE FltMax
    IN  [s EXCEPT !.workingCost =
                      [i \in Idx(s.m) |-> [j \in Idx(s.n) |->
                          s.workingCost[i][j]
                            + (IF s.coveredRow[i] THEN minUncoveredCost ELSE 0)
                            - (IF ~s.coveredCol[j] THEN minUncoveredCost ELSE 0)]],
                  !.emptyAdjust = s.emptyAdjust \/ unc = {}]

\* lines 206-225: one turn of the loop of primeUncoveredZeros
primeUncoveredZeros(s) ==
    LET z == findUncoveredZero(s, s.i, s.j)
    IN  IF z # <<-1, -1>>
        THEN LET i == z[1]
                 j == z[2]
                 t == [s EXCEPT !.markerTable[i][j] = "PRIME",
                                !.found = z,
                                !.first = RowMajorFirst(UncoveredZeros(s))]
             IN  IF s.hasStarredZeroInRow[i]
                 THEN LET jStar == locateStarredZeroInRow(s, i)
                      IN  IF jStar = -1
                          THEN [t EXCEPT !.fault = TRUE, !.pc = "fault"]
                          ELSE [t EXCEPT !.i = i, !.j = jStar,
                                         !.coveredRow[i] = TRUE,
                                         !.coveredCol[jStar] = FALSE]
                 ELSE [t EXCEPT !.i = i, !.j = j, !.path0 = <<i, j>>, !.pc = "augment"]
        ELSE [adjustCost(s) EXCEPT !.i = 0, !.j = 0]

\* lines 229-247
locateStarredZeroInCol(s, j) ==
    LET is == {i \in Idx(s.m) : s.markerTable[i][j] = "STAR"}
    IN  IF is = {} THEN -1 ELSE MinOf(is)

locatePrimedZeroInRow(s, i) ==
    LET js == {j \in Idx(s.n) : s.markerTable[i][j] = "PRIME"}
    IN  IF js = {} THEN -1 ELSE MinOf(js)

\* lines 249-263: the alternating path from path0; <<-1, -1>> is appended
\* where a locate returned -1 and the code would index with it
RECURSIVE buildPaths(_, _)
buildPaths(s0, paths0) ==
    LET from(s, paths) ==
            LET j == paths[Len(paths)][2]
            IN  IF ~s.hasStarredZeroInCol[j] THEN paths
                ELSE LET i == locateStarredZeroInCol(s, j)
                     IN  IF i = -1 THEN Append(paths, <<-1, -1>>)
                         ELSE LET j2 == locatePrimedZeroInRow(s, i)
                              IN  IF j2 = -1 \/ Len(paths) > 2 * s.m
                                  THEN Append(paths, <<-1, -1>>)
                                  ELSE buildPaths(s, paths \o <<(<<i, j>>), (<<i, j2>>)>>)
    IN  CHOOSE r \in {from(v[1], v[2]) : v \in {<<s0, paths0>>}} : TRUE

\* lines 266-289: star the primes and unstar the stars along the path
RECURSIVE augmentFrom(_, _, _, _, _)
augmentFrom(s0, paths0, k0, newRow0, newCol0) ==
    LET from(s, paths, k, newRow, newCol) ==
            IF k > Len(paths) THEN s
            ELSE LET i == paths[k][1]
                     j == paths[k][2]
                 IN  IF (k - 1) % 2 = 0
                     THEN augmentFrom([s EXCEPT !.markerTable[i][j] = "STAR",
                                                !.hasStarredZeroInRow[i] = TRUE,
                                                !.hasStarredZeroInCol[j] = TRUE],
                                      paths, k + 1, newRow \cup {i}, newCol \cup {j})
                     ELSE augmentFrom([s EXCEPT !.markerTable[i][j] = "NONE",
                                                !.hasStarredZeroInRow[i] =
                                                    IF i \in newRow THEN @ ELSE FALSE,
                                                !.hasStarredZeroInCol[j] =
                                                    IF j \in newCol THEN @ ELSE FALSE],
                                      paths, k + 1, newRow, newCol)
    IN  CHOOSE r \in {from(v[1], v[2], v[3], v[4], v[5]) : v \in {<<s0, paths0, k0, newRow0, newCol0>>}} : TRUE

\* lines 228-311
findMaximalMatching(s) ==
    LET paths == buildPaths(s, <<s.path0>>)
    IN  IF paths[Len(paths)] = <<-1, -1>>
        THEN [s EXCEPT !.fault = TRUE, !.pc = "fault"]
        ELSE LET t == augmentFrom(s, paths, 1, {}, {})
             IN  [t EXCEPT !.markerTable =
                               [i \in Idx(s.m) |-> [j \in Idx(s.n) |->
                                   IF t.markerTable[i][j] = "PRIME" THEN "NONE"
                                   ELSE t.markerTable[i][j]]],
                           !.coveredRow = [i \in Idx(s.m) |-> FALSE],
                           !.coveredCol = [j \in Idx(s.n) |-> FALSE],
                           !.pc = "coverCols"]

\* the sum of c.at over a set of cells
RECURSIVE SumCells(_, _)
SumCells(c, P) ==
    IF P = {} THEN 0
    ELSE LET p == CHOOSE q \in P : TRUE
         IN  c.at[p[1]][p[2]] + SumCells(c, P \ {p})

StarCells(s) == {p \in Idx(s.m) \X Idx(s.n) : s.markerTable[p[1]][p[2]] = "STAR"}

\* a faulty assignTotal that adds the working costs
assignTotalMutant(s, c) == SumCells(Mat(s.m, s.n, s.workingCost), StarCells(s))

\* lines 343-355: out[i] is the last starred column of row i, the total adds
\* the cost of every starred cell
assignTotal(s, c) == SumCells(c, StarCells(s))

assignIndices(s, out) ==
    [i \in DOMAIN out |->
        LET js == {j \in Idx(s.n) : i \in Idx(s.m) /\ s.markerTable[i][j] = "STAR"}
        IN  IF js = {} THEN out[i] ELSE MaxOf(js)]

\* a faulty invertFrom that writes the column where the row belongs
RECURSIVE invertFromMutant(_, _, _, _)
invertFromMutant(src, dst, k, m) ==
    IF k >= m THEN dst
    ELSE IF src[k] \notin DOMAIN dst THEN <<"fault">>
    ELSE invertFromMutant(src, [dst EXCEPT ![src[k]] = src[k]], k + 1, m)

\* lines 111-119: fill the other direction, in index order (a later write wins)
RECURSIVE invertFrom(_, _, _, _)
invertFrom(src, dst, k, m) ==
    IF k >= m THEN dst
    ELSE IF src[k] \notin DOMAIN dst THEN <<"fault">>
    ELSE invertFrom(src, [dst EXCEPT ![src[k]] = k], k + 1, m)

\* a faulty solveFinish that does not swap the vectors of a transposed call
solveFinishMutant(s, c) ==
    LET direct == assignIndices(s, [i \in Idx(s.m) |-> -1])
        other == invertFrom(direct, [j \in Idx(s.n) |-> -1], 0, s.m)
    IN  [s EXCEPT !.total = assignTotal(s, IF s.isTransposed THEN Transposed(c) ELSE c),
                  !.assignment = direct,
                  !.assignmentReversed = other,
                  !.pc = "done"]

\* lines 108-121
solveFinish(s, c) ==
    LET used == IF s.isTransposed THEN Transposed(c) ELSE c
        direct == assignIndices(s, IF s.isTransposed THEN s.assignmentReversed
                                   ELSE s.assignment)
        other == invertFrom(direct, IF s.isTransposed THEN s.assignment
                                    ELSE s.assignmentReversed, 0, s.m)
    IN  IF other = <<"fault">> THEN [s EXCEPT !.fault = TRUE, !.pc = "fault"]
        ELSE [s EXCEPT !.total = assignTotal(s, used),
                       !.assignment = IF s.isTransposed THEN other ELSE direct,
                       !.assignmentReversed = IF s.isTransposed THEN direct ELSE other,
                       !.pc = "done"]

\* one step of solve from position s.pc
solveStep(s, c) ==
    CASE s.pc = "reduceRows" -> reduceRows(s)
      [] s.pc = "findInitialStarredZeros" -> findInitialStarredZeros(s)
      [] s.pc = "coverCols" -> coverColsWithStarredZeros(s)
      [] s.pc = "prime" -> primeUncoveredZeros(s)
      [] s.pc = "augment" -> findMaximalMatching(s)
      [] s.pc = "assign" -> solveFinish(s, c)
      [] OTHER -> s

RECURSIVE solveRun(_, _)
solveRun(s, c) == IF s.pc \in {"done", "fault"} THEN s ELSE solveRun(solveStep(s, c), c)

\* lines 19-122: LAPSolver::solve as a function of its arguments
solve(c, mx) == solveRun(solveBegin(c, mx), c)

-----------------------------------------------------------------------------
(* SortTracker (tracker.cpp), TrackedBBox (tracked_bbox.cpp) and Trajectory *)
(* (trajectory.hpp).  The Kalman filter's geometry is left open: the IoU    *)
(* matrix of an update and the y-centre of each sampled rectangle are       *)
(* inputs of the update, drawn from IouLevels and Ys.  IoU values are       *)
(* levels 0, 1, 2 and the threshold is a level.                             *)

IouLevels == {0, 1, 2}

Ys == {0, 1}

\* the constructor's arguments explored: one setting and every setting that
\* differs from it in one argument
BaseParams ==
    [maxBBoxAge |-> 0, minBBoxHitStreak |-> 1, maxTrajectoryAge |-> 0,
     minTrajectoryNumSamples |-> 1, minTrajectoryFallingDistance |-> 0,
     iouThreshold |-> 1]

ParamSets ==
    { BaseParams,
      [BaseParams EXCEPT !.maxBBoxAge = 1],
      [BaseParams EXCEPT !.minBBoxHitStreak = 2],
      [BaseParams EXCEPT !.maxTrajectoryAge = 1],
      [BaseParams EXCEPT !.minTrajectoryNumSamples = 2],
      [BaseParams EXCEPT !.minTrajectoryFallingDistance = 1] }

\* a faulty constructor that starts with a hit streak of one
TrackedBBoxMutant(uid) ==
    [age |-> 0, numHits |-> 0, numConsecutiveHits |-> 1, uid |-> uid, run |-> 0]

\* tracked_bbox.cpp lines 16-19; uid is history: the track's creation number;
\* run is history: the updates in a row, up to the last one that matched the
\* track, in which a detection was matched to it
TrackedBBox(uid) ==
    [age |-> 0, numHits |-> 0, numConsecutiveHits |-> 0, uid |-> uid, run |-> 0]

\* a faulty predict that does not age the track
predictMutant(track) == track

\* tracked_bbox.cpp lines 96-100
predict(track) == [track EXCEPT !.age = @ + 1]

\* tracked_bbox.cpp lines 102-114
update(track) ==
    [track EXCEPT !.numHits = @ + 1,
                  !.numConsecutiveHits = IF track.age = 1 THEN @ + 1 ELSE 0,
                  !.run = IF track.age = 1 THEN @ + 1 ELSE 1,
                  !.age = 0]

\* trajectory.hpp lines 275-296 (Trajectory::add): append the sample, reset age
add(trajectory, y, uid) ==
    [age |-> 0, samples |-> Append(trajectory.samples, [yCenter |-> y, src |-> uid])]

\* a faulty incrementAge that leaves the age as it was
incrementAgeMutant(trajectory, count) == trajectory

\* trajectory.hpp line 58
incrementAge(trajectory, count) == [trajectory EXCEPT !.age = @ + count]

\* trajectory.hpp lines 119-123
getRangeY(trajectory) ==
    IF trajectory.samples = <<>> THEN 0
    ELSE LET d == trajectory.samples[Len(trajectory.samples)].yCenter
                    - trajectory.samples[1].yCenter
         IN  IF d < 0 THEN 0 - d ELSE d

getNumSamples(trajectory) == Len(trajectory.samples)

\* a faulty canKeep that keeps a track one age too long
canKeepMutant(p, track) == track.age <= p.maxBBoxAge + 1

\* tracker.cpp lines 171-181
canKeep(p, track) == track.age <= p.maxBBoxAge

\* a faulty canPick that asks for one more hit
canPickMutant(p, track) == track.numConsecutiveHits > p.minBBoxHitStreak

canPick(p, track) == track.numConsecutiveHits >= p.minBBoxHitStreak

isEnded(p, trajectory) == trajectory.age > p.maxTrajectoryAge

\* a faulty isFallingObjectTrajectory with a strict distance test
isFallingObjectTrajectoryMutant(p, trajectory) ==
    IF getNumSamples(trajectory) < p.minTrajectoryNumSamples THEN FALSE
    ELSE IF getRangeY(trajectory) <= p.minTrajectoryFallingDistance THEN FALSE
    ELSE TRUE

\* tracker.cpp lines 183-200
isFallingObjectTrajectory(p, trajectory) ==
    IF getNumSamples(trajectory) < p.minTrajectoryNumSamples THEN FALSE
    ELSE IF getRangeY(trajectory) < p.minTrajectoryFallingDistance THEN FALSE
    ELSE TRUE

\* tracker.cpp line 202 with the emplace of lines 58 and 119: take the next tag
\* and insert a new track under it (std::map::emplace keeps an existing entry)
emplaceNewTrack(st) ==
    LET tag == st.tagCount
    IN  [st EXCEPT !.tagCount = @ + 1,
                   !.issued = Append(@, [tag |-> tag, clears |-> st.clears]),
                   !.tracks = IF tag \in DOMAIN st.tracks THEN @
                              ELSE (tag :> TrackedBBox(Len(st.issued) + 1)) @@ @]

\* tracker.cpp lines 55-61: no track yet, every detection becomes a track
RECURSIVE bootstrap(_, _)
bootstrap(st, n) == IF n = 0 THEN st ELSE bootstrap(emplaceNewTrack(st), n - 1)

\* the k-th smallest element of a set of numbers, k from 0
Nth(S, k) == CHOOSE x \in S : Cardinality({y \in S : y < x}) = k

\* tracker.cpp lines 87-113: update the matched tracks, cancel poor matches,
\* remove expired tracks and end their trajectories
RECURSIVE applyMatches(_, _, _, _, _, _)
applyMatches(p, st, tags, iou, matches, i) ==
    IF i >= Len(tags) THEN st
    ELSE LET j == matches[i]
             tag == tags[i + 1]
             track == st.tracks[tag]
         IN  IF j # -1 /\ iou.at[i][j] > p.iouThreshold
             THEN applyMatches(p, [st EXCEPT !.tracks[tag] = update(track)],
                               tags, iou, matches, i + 1)
             ELSE LET s1 == IF j # -1 THEN [st EXCEPT !.matchesReversed[j] = -1] ELSE st
                      s2 == IF canKeep(p, track) THEN s1
                            ELSE [s1 EXCEPT
                                    !.tracks = [u \in DOMAIN st.tracks \ {tag} |-> st.tracks[u]],
                                    !.trajectories =
                                        IF tag \in DOMAIN st.trajectories
                                        THEN [@ EXCEPT ![tag] =
                                                incrementAge(@, p.maxTrajectoryAge + 1)]
                                        ELSE @]
                  IN  applyMatches(p, s2, tags, iou, matches, i + 1)

\* a faulty spawn loop that makes a track of every detection
spawnUnmatchedMutant(st, j, n) == bootstrap(st, n - j)

\* tracker.cpp lines 116-121: every unmatched detection becomes a track
RECURSIVE spawnUnmatched(_, _, _)
spawnUnmatched(st, j, n) ==
    IF j >= n THEN st
    ELSE spawnUnmatched(IF st.matchesReversed[j] = -1 THEN emplaceNewTrack(st) ELSE st,
                        j + 1, n)

\* the IoU matrices an update can be given
IouMatrices ==
    UNION { { Mat(r, c, v) : v \in [Idx(r) -> [Idx(c) -> IouLevels]] } :
            <<r, c>> \in {d \in (0 .. MaxTags) \X (0 .. MaxDet) : d[1] * d[2] <= MaxIouCells} }

\* tracker.cpp line 77: _lapSolver.solve(iou, _matches, _matchesReversed, true),
\* tabulated over the IoU matrices
lapSolve ==
    [c \in IouMatrices |->
        LET r == solve(c, TRUE)
        IN  [assignment |-> r.assignment, assignmentReversed |-> r.assignmentReversed]]

\* the IoU of each prediction with the detection solve assigned to it, -1
\* where it assigned none: what line 94 reads
matchedIou(iou, matches) ==
    [i \in DOMAIN matches |-> IF matches[i] = -1 THEN -1 ELSE iou.at[i][matches[i]]]

\* tracker.cpp lines 53-122; iou is the matrix getIoU returns for the
\* predictions (in tag order) and the n detections
updateTracks(p, st, n, iou) ==
    IF DOMAIN st.tracks = {} THEN bootstrap(st, n)
    ELSE LET tagSet == DOMAIN st.tracks
             tags == [k \in 1 .. Cardinality(tagSet) |-> Nth(tagSet, k - 1)]
             predicted == [st EXCEPT !.tracks = [u \in tagSet |-> predict(st.tracks[u])]]
             r == lapSolve[iou]
             matched == applyMatches(p, [predicted EXCEPT !.matches = r.assignment,
                                                          !.matchesReversed = r.assignmentReversed],
                                     tags, iou, r.assignment, 0)
         IN  spawnUnmatched(matched, 0, n)

\* tracker.cpp lines 130-146: every track on a hit streak adds a sample to
\* its trajectory, created when missing; ys gives the sampled y-centres
pickSamples(p, st, ys) ==
    LET picked == {tag \in DOMAIN st.tracks : canPick(p, st.tracks[tag])}
        keys == DOMAIN st.trajectories \cup picked
    IN  [st EXCEPT !.trajectories =
            [tag \in keys |->
                IF tag \in picked
                THEN add(IF tag \in DOMAIN st.trajectories THEN st.trajectories[tag]
                         ELSE [age |-> 0, samples |-> <<>>],
                         ys[tag], st.tracks[tag].uid)
                ELSE st.trajectories[tag]]]

\* a faulty sweep that finds no trajectory ended
sweepEndedMutant(p, st) == {}

\* tracker.cpp lines 148-161: the ended trajectories, those of them reported
\* to the callback, and the map after the sweep.  Line 149 copies the map
\* entry, so the incrementAge of line 160 changes the copy, not the entry.
sweepEnded(p, st) == {tag \in DOMAIN st.trajectories : isEnded(p, st.trajectories[tag])}

sweepFired(p, st) ==
    {tag \in sweepEnded(p, st) : isFallingObjectTrajectory(p, st.trajectories[tag])}

\* a faulty sweepKeep that erases nothing
sweepKeepMutant(p, st) == st

sweepKeep(p, st) ==
    [st EXCEPT !.trajectories =
        [tag \in DOMAIN st.trajectories \ sweepEnded(p, st) |-> st.trajectories[tag]]]

\* a faulty clear that keeps the trajectories
clearTracksOnlyMutant(st) == [st EXCEPT !.tracks = <<>>]

\* a faulty clear that also resets the tag counter
clearMutant(st) == [st EXCEPT !.tracks = <<>>, !.trajectories = <<>>, !.tagCount = 0]

\* tracker.cpp lines 164-167
clear(st) == [st EXCEPT !.tracks = <<>>, !.trajectories = <<>>]

-----------------------------------------------------------------------------
(* ViBeSequential (bgsegm/vibe_sequential.cpp), seen at one pixel p: the    *)
(* history images' pixels H0[p] and H1[p], the samples of p and the mask    *)
(* value fgMask[p].  Pixels are triples of uint8 channels.  The random      *)
(* draws of init and update are inputs of the calls.                        *)

\* the pixels a frame can show at p
FramePixels == { <<0, 0, 0>>, <<2, 0, 0>> }

\* the per-channel noise init can draw for a sample (cv::RNG::uniform(-10, 10))
SeedNoise == { <<0, 0, 0>>, <<-2, 0, 0>>, <<2, 2, 2>> }

\* cv::saturate_cast<uint8_t>
saturate(x) == IF x < 0 THEN 0 ELSE IF x > 255 THEN 255 ELSE x

\* assignment of an int to a uint8_t
toUint8(x) == x % 256

Abs(x) == IF x < 0 THEN 0 - x ELSE x

\* lines 279-287
isClose(pixelA, pixelB, thresholdL1) ==
    Abs(pixelA[1] - pixelB[1]) + Abs(pixelA[2] - pixelB[2])
        + Abs(pixelA[3] - pixelB[3]) <= thresholdL1

\* lines 17-43: the buffers are allocated but not filled (the model keeps a
\* placeholder, never read before init writes it), the tables are resized,
\* which zero-fills them
ViBeSequential(numSamples, thresholdL1, minNumCloseSamples) ==
    [numSamples |-> numSamples,
     thresholdL1 |-> thresholdL1 * 3,
     minNumCloseSamples |-> minNumCloseSamples,
     swapHistoryImageFlag |-> FALSE,
     isInitalized |-> FALSE,
     historyImage0 |-> <<0, 0, 0>>,
     historyImage1 |-> <<0, 0, 0>>,
     historySamples |-> [k \in Idx(numSamples) |-> <<0, 0, 0>>],
     tables |-> "zero",
     fgMask |-> 0,
     calls |-> 0,
     op |-> "construct",
     outcome |-> "ok",
     frame |-> <<0, 0, 0>>,
     before |-> <<>>]

\* a faulty init that does not fill history image 1
initMutant(v, frame, noise) ==
    [v EXCEPT !.historyImage0 = frame,
              !.historySamples =
                  [k \in Idx(v.numSamples) |->
                      [c \in 1 .. 3 |-> saturate(frame[c] + noise[k][c])]],
              !.tables = "seeded",
              !.isInitalized = TRUE]

\* lines 251-277: noise[k] is the noise drawn for sample k
init(v, frame, noise) ==
    [v EXCEPT !.historyImage0 = frame,
              !.historyImage1 = frame,
              !.historySamples =
                  [k \in Idx(v.numSamples) |->
                      [c \in 1 .. 3 |-> saturate(frame[c] + noise[k][c])]],
              !.tables = "seeded",
              !.isInitalized = TRUE]

\* lines 88-107 at p: the samples in order while the mask value is positive;
\* a close sample lowers it and is swapped with the history image's pixel.
\* The test of line 90 is on a uint8_t and never true.
RECURSIVE compareSamples(_, _, _)
compareSamples(v, frame, k) ==
    IF ~(k < v.numSamples /\ v.fgMask > 0) THEN v
    ELSE IF isClose(v.historySamples[k], frame, v.thresholdL1)
    THEN compareSamples(
             IF v.swapHistoryImageFlag
             THEN [v EXCEPT !.fgMask = toUint8(@ - 1),
                            !.historyImage1 = v.historySamples[k],
                            !.historySamples[k] = v.historyImage1]
             ELSE [v EXCEPT !.fgMask = toUint8(@ - 1),
                            !.historyImage0 = v.historySamples[k],
                            !.historySamples[k] = v.historyImage0],
             frame, k + 1)
    ELSE compareSamples(v, frame, k + 1)

\* lines 59-115 at p, after the assertions
segmentPixel(v0, frame, noise) ==
    LET v1 == IF ~v0.isInitalized THEN init(v0, frame, noise) ELSE v0
        m0 == saturate(v1.minNumCloseSamples - 1)
        m1 == IF ~isClose(v1.historyImage0, frame, v1.thresholdL1)
              THEN toUint8(v1.minNumCloseSamples) ELSE m0
        m2 == IF isClose(v1.historyImage1, frame, v1.thresholdL1)
              THEN toUint8(m1 - 1) ELSE m1
        v2 == compareSamples([v1 EXCEPT !.fgMask = m2,
                                        !.swapHistoryImageFlag = ~@], frame, 0)
    IN  [v2 EXCEPT !.fgMask = IF @ > 0 THEN 255 ELSE @]

\* lines 117-247 at p on a model whose tables init has filled: the scans
\* visit p or not; a visit with updateMask[p] = 0 writes the frame's pixel
\* into the slot k the replace table gives (0 and 1 the history images, from
\* 2 on the samples); a visited row neighbour with a zero mask writes its own
\* pixel into p's slot k.  written is the pixel that arrives, if any.
updatePixel(v, k, written) ==
    IF k = 0 THEN [v EXCEPT !.historyImage0 = written]
    ELSE IF k = 1 THEN [v EXCEPT !.historyImage1 = written]
    ELSE [v EXCEPT !.historySamples[k - 2] = written]

\* line 249
vibeClear(v) == [v EXCEPT !.isInitalized = FALSE]

\* what a call finds: kept to state what the call did
Snapshot(v) ==
    [isInitalized |-> v.isInitalized, tables |-> v.tables,
     historyImage0 |-> v.historyImage0, historyImage1 |-> v.historyImage1,
     historySamples |-> v.historySamples]

-----------------------------------------------------------------------------
(* The driver (main.cpp): what its frame loop keeps *)

\* main.cpp lines 165, 218-220: the driver before the first frame
Main(maxNumBlobs) ==
    [maxNumBlobs |-> maxNumBlobs, numFgBlobs |-> 0, frames |-> 0, call |-> "none"]

-----------------------------------------------------------------------------
(* The solver as a state machine: a call, then one action per step of solve *)

\* the cost matrices of test/lap_solver_test.cpp
TestCosts ==
    { FromRows(<< <<1, 2, 3>>, <<2, 4, 6>>, <<3, 6, 9>> >>),
      FromRows(<< <<5, 10, 15, 20>>, <<15, 20, 30, 10>>, <<10, 20, 15, 30>>,
                  <<20, 10, 10, 45>>, <<50, 50, 50, 50>> >>),
      FromRows(<< <<5, 10, 15, 20, 50>>, <<15, 20, 30, 10, 50>>,
                  <<10, 20, 15, 30, 50>>, <<20, 10, 10, 45, 50>> >>) }

BoundedCosts ==
    UNION { { Mat(r, c, v) : v \in [Idx(r) -> [Idx(c) -> 0 .. MaxCost]] } :
            <<r, c>> \in {d \in (0 .. MaxDim) \X (0 .. MaxDim) : d[1] * d[2] <= MaxCells} }

Costs == BoundedCosts \cup TestCosts

\* the tracker before any call; issued and callbacks are empty histories
TrackerInit ==
    /\ tracks = <<>>
    /\ trajectories = <<>>
    /\ tagCount = 0
    /\ frameCount = 0
    /\ issued = <<>>
    /\ clears = 0
    /\ callbacks = <<>>
    /\ last = [op |-> "construct", detections |-> 0, expired |-> {}, swept |-> {},
               fired |-> {}, dropped |-> {}, matchedIou |-> <<>>, matches |-> <<>>,
               matchesReversed |-> <<>>]

LapInit ==
    /\ cost = EmptyMat
    /\ maximize = FALSE
    /\ lap = Idle
    /\ params = CHOOSE p \in ParamSets : TRUE
    /\ TrackerInit
    /\ vibe = ViBeSequential(1, 0, 1)
    /\ driver = Main(1)

\* solve overwrites every field it later reads (lines 26-88), so a call on a
\* used solver behaves as a call on a fresh one: one call per behaviour
Call ==
    /\ lap.pc = "idle"
    /\ \E c \in Costs, mx \in BOOLEAN :
          /\ cost' = c
          /\ maximize' = mx
          /\ lap' = solveBegin(c, mx)
    /\ UNCHANGED <<trackerVars, vibe, driver>>

ReduceRows ==
    /\ lap.pc = "reduceRows"
    /\ lap' = reduceRows(lap)
    /\ UNCHANGED <<cost, maximize>>
    /\ UNCHANGED <<trackerVars, vibe, driver>>

FindInitialStarredZeros ==
    /\ lap.pc = "findInitialStarredZeros"
    /\ lap' = findInitialStarredZeros(lap)
    /\ UNCHANGED <<cost, maximize>>
    /\ UNCHANGED <<trackerVars, vibe, driver>>

CoverColsWithStarredZeros ==
    /\ lap.pc = "coverCols"
    /\ lap' = coverColsWithStarredZeros(lap)
    /\ UNCHANGED <<cost, maximize>>
    /\ UNCHANGED <<trackerVars, vibe, driver>>

PrimeUncoveredZeros ==
    /\ lap.pc = "prime"
    /\ lap' = primeUncoveredZeros(lap)
    /\ UNCHANGED <<cost, maximize>>
    /\ UNCHANGED <<trackerVars, vibe, driver>>

FindMaximalMatching ==
    /\ lap.pc = "augment"
    /\ lap' = findMaximalMatching(lap)
    /\ UNCHANGED <<cost, maximize>>
    /\ UNCHANGED <<trackerVars, vibe, driver>>

SolveFinish ==
    /\ lap.pc = "assign"
    /\ lap' = solveFinish(lap, cost)
    /\ UNCHANGED <<cost, maximize>>
    /\ UNCHANGED <<trackerVars, vibe, driver>>

LapNext ==
    \/ Call
    \/ ReduceRows
    \/ FindInitialStarredZeros
    \/ CoverColsWithStarredZeros
    \/ PrimeUncoveredZeros
    \/ FindMaximalMatching
    \/ SolveFinish

SpecLAP == LapInit /\ [][LapNext]_vars

-----------------------------------------------------------------------------
(* The tracker as a state machine: the driver calls update and clear *)

Init ==
    /\ cost = EmptyMat
    /\ maximize = FALSE
    /\ lap = Idle
    /\ params \in ParamSets
    /\ TrackerInit
    /\ vibe = ViBeSequential(1, 0, 1)
    /\ driver = Main(1)

TrackerState ==
    [tracks |-> tracks, trajectories |-> trajectories, tagCount |-> tagCount,
     issued |-> issued, clears |-> clears, matches |-> <<>>,
     matchesReversed |-> <<>>]

\* tracker.cpp lines 43-51: SortTracker::update on n detections
SortTrackerUpdate(n) ==
    /\ \E iou \in [Idx(Cardinality(DOMAIN tracks)) -> [Idx(n) -> IouLevels]] :
       \E s1 \in {updateTracks(params, TrackerState, n,
                               Mat(Cardinality(DOMAIN tracks), n, iou))} :
       s1.tagCount <= MaxTags /\
       \E ys \in [{tag \in DOMAIN s1.tracks : canPick(params, s1.tracks[tag])} -> Ys] :
       \E s2 \in {pickSamples(params, s1, ys)} :
       \E fired \in {sweepFired(params, s2)} :
       \E s3 \in {sweepKeep(params, s2)} :
          /\ tracks' = s3.tracks
          /\ trajectories' = s3.trajectories
          /\ tagCount' = s3.tagCount
          /\ issued' = s3.issued
          /\ callbacks' =
                 [tag \in DOMAIN callbacks \cup fired |->
                     (IF tag \in DOMAIN callbacks THEN callbacks[tag] ELSE 0)
                       + (IF tag \in fired THEN 1 ELSE 0)]
          /\ last' = [op |-> "update",
                      detections |-> n,
                      expired |-> DOMAIN tracks \ DOMAIN s1.tracks,
                      swept |-> {[tag |-> tag, trajectory |-> s2.trajectories[tag]] :
                                   tag \in sweepEnded(params, s2)},
                      fired |-> fired,
                      dropped |-> {},
                      matchedIou |-> matchedIou(Mat(Cardinality(DOMAIN tracks), n, iou),
                                                s1.matches),
                      matches |-> s1.matches,
                      matchesReversed |-> s1.matchesReversed]
          /\ frameCount' = frameCount + 1
    /\ UNCHANGED <<params, clears, cost, maximize, lap>>

\* the numbers of detections explored with the tracks there are
Detections == {k \in 0 .. MaxDet : k * Cardinality(DOMAIN tracks) <= MaxIouCells}

Update ==
    /\ frameCount < MaxFrames
    /\ \E n \in Detections : SortTrackerUpdate(n)
    /\ UNCHANGED <<vibe, driver>>

\* tracker.cpp lines 164-167: SortTracker::clear
SortTrackerClear ==
    /\ LET s1 == clear(TrackerState)
       IN  /\ tracks' = s1.tracks
           /\ trajectories' = s1.trajectories
           /\ tagCount' = s1.tagCount
           /\ issued' = s1.issued
    /\ clears' = clears + 1
    /\ last' = [op |-> "clear", detections |-> 0, expired |-> {}, swept |-> {},
                fired |-> {}, matchedIou |-> <<>>, matches |-> <<>>,
                matchesReversed |-> <<>>,
                dropped |-> {[tag |-> tag, trajectory |-> trajectories[tag]] :
                               tag \in DOMAIN trajectories}]
    /\ UNCHANGED <<params, frameCount, callbacks, cost, maximize, lap>>

Clear ==
    /\ last.op # "clear"
    /\ SortTrackerClear
    /\ UNCHANGED <<vibe, driver>>

Next == Update \/ Clear

Spec == Init /\ [][Next]_vars

-----------------------------------------------------------------------------
(* The tracker on one falling object: a detection in each of the first      *)
(* frames, matched to its track from the second on and moving down by dy    *)
(* per frame, then frames without detections.  A sample's y-centre is the   *)
(* object's, continued at the same speed while the track coasts.            *)

BottleScenario == [frames |-> 30, y0 |-> 50, dy |-> 10]

BottleParams ==
    { [maxBBoxAge |-> a, minBBoxHitStreak |-> 3, maxTrajectoryAge |-> 5,
       minTrajectoryNumSamples |-> 16, minTrajectoryFallingDistance |-> 128,
       iouThreshold |-> t] : a \in 0 .. MaxTail - 2, t \in {0, 1} }

BottleInit ==
    /\ cost = EmptyMat
    /\ maximize = FALSE
    /\ lap = Idle
    /\ params \in BottleParams
    /\ TrackerInit
    /\ vibe = ViBeSequential(1, 0, 1)
    /\ driver = Main(1)

\* tracker.cpp lines 43-51: SortTracker::update on n detections with the IoU
\* matrix iou, every sample taken at y-centre y
UpdateOn(n, iou, y) ==
    \E s1 \in {updateTracks(params, TrackerState, n, iou)} :
    \E s2 \in {pickSamples(params, s1, [tag \in DOMAIN s1.tracks |-> y])} :
    \E fired \in {sweepFired(params, s2)} :
    \E s3 \in {sweepKeep(params, s2)} :
       /\ tracks' = s3.tracks
       /\ trajectories' = s3.trajectories
       /\ tagCount' = s3.tagCount
       /\ issued' = s3.issued
       /\ callbacks' =
              [tag \in DOMAIN callbacks \cup fired |->
                  (IF tag \in DOMAIN callbacks THEN callbacks[tag] ELSE 0)
                    + (IF tag \in fired THEN 1 ELSE 0)]
       /\ last' = [op |-> "update",
                   detections |-> n,
                   expired |-> DOMAIN tracks \ DOMAIN s1.tracks,
                   swept |-> {[tag |-> tag, trajectory |-> s2.trajectories[tag]] :
                                tag \in sweepEnded(params, s2)},
                   fired |-> fired,
                   dropped |-> {},
                   matchedIou |-> matchedIou(iou, s1.matches),
                   matches |-> s1.matches,
                   matchesReversed |-> s1.matchesReversed]
       /\ frameCount' = frameCount + 1
       /\ UNCHANGED <<params, clears, cost, maximize, lap, vibe, driver>>

BottleY == BottleScenario.y0 + BottleScenario.dy * frameCount

\* a frame showing the object, matched with the highest IoU level
BottleFrame ==
    /\ frameCount < BottleScenario.frames
    /\ UpdateOn(1, Mat(Cardinality(DOMAIN tracks), 1,
                       [i \in Idx(Cardinality(DOMAIN tracks)) |-> [j \in Idx(1) |-> 2]]),
                BottleY)

\* a frame without detections after the object has left
EmptyFrame ==
    /\ frameCount >= BottleScenario.frames
    /\ frameCount < BottleScenario.frames + MaxTail
    /\ UpdateOn(0, Mat(Cardinality(DOMAIN tracks), 0,
                       [i \in Idx(Cardinality(DOMAIN tracks)) |-> <<>>]),
                BottleY)

BottleNext == BottleFrame \/ EmptyFrame

SpecBottle == BottleInit /\ [][BottleNext]_vars

-----------------------------------------------------------------------------
(* ViBeSequential as a state machine: the driver calls segment, update and  *)
(* clear; valid says whether the arguments pass the CV_Asserts              *)

ViBeInit ==
    /\ cost = EmptyMat
    /\ maximize = FALSE
    /\ lap = Idle
    /\ params = CHOOSE p \in ParamSets : TRUE
    /\ TrackerInit
    /\ vibe \in { ViBeSequential(n, th, kappa) :
                     n \in 1 .. MaxSamples, th \in 0 .. MaxThreshold,
                     kappa \in 1 .. MaxKappa }
    /\ driver = Main(1)

\* what a call leaves behind for the claims: its name, frame and what it found
Called(v, before, op, frame) ==
    [v EXCEPT !.op = op, !.frame = frame, !.before = Snapshot(before),
              !.calls = @ + 1]

\* lines 51-115
Segment ==
    /\ vibe.calls < MaxCalls
    /\ vibe.outcome # "crash"
    /\ vibe' \in
          { Called([vibe EXCEPT !.outcome = "assert"], vibe, "segment", frame) :
                frame \in FramePixels }
          \cup
          { Called([segmentPixel(vibe, x[1], x[2]) EXCEPT !.outcome = "ok"],
                   vibe, "segment", x[1]) :
                x \in FramePixels \X
                      (IF vibe.isInitalized
                       THEN {[k \in Idx(vibe.numSamples) |-> <<0, 0, 0>>]}
                       ELSE [Idx(vibe.numSamples) -> SeedNoise]) }
    /\ UNCHANGED <<lapVars, trackerVars, driver>>

\* lines 117-247 on a model whose tables init has filled: p is not visited,
\* or visited with updateMask[p] = 0 or not, or written by a row neighbour
seededUpdates(v, frame) ==
    {v} \cup { updatePixel(v, x[1], x[2]) : x \in Idx(v.numSamples) \X FramePixels }

\* lines 117-247.  There is no test of _isInitalized: with the tables still
\* zero-filled every scan loop adds jump 0 to its index for ever and reads
\* the tables past their end, which is undefined: the call crashes, or
\* returns after writing the frame's pixel into history image 0 (slot 0).
unseededUpdates(v, frame) ==
    { [v EXCEPT !.outcome = "crash"], v, updatePixel(v, 0, frame) }

ViBeUpdate ==
    /\ vibe.calls < MaxCalls
    /\ vibe.outcome # "crash"
    /\ vibe' \in
          { Called([vibe EXCEPT !.outcome = "assert"], vibe, "update", frame) :
                frame \in FramePixels }
          \cup
          UNION { { Called(IF v1.outcome = "crash" THEN v1
                           ELSE [v1 EXCEPT !.outcome = "ok"],
                           vibe, "update", frame) :
                        v1 \in IF vibe.tables = "zero"
                               THEN unseededUpdates(vibe, frame)
                               ELSE seededUpdates(vibe, frame) } :
                  frame \in FramePixels }
    /\ UNCHANGED <<lapVars, trackerVars, driver>>

\* line 249
ViBeClear ==
    /\ vibe.op # "clear"
    /\ vibe.outcome # "crash"
    /\ vibe' = [vibeClear(vibe) EXCEPT !.op = "clear", !.outcome = "ok",
                                       !.before = Snapshot(vibe)]
    /\ UNCHANGED <<lapVars, trackerVars, driver>>

ViBeNext == Segment \/ ViBeUpdate \/ ViBeClear

SpecViBe == ViBeInit /\ [][ViBeNext]_vars

-----------------------------------------------------------------------------
(* The driver as a state machine: main's frame loop, one frame per step.   *)
(* The frame is seen at one pixel by ViBeSequential; the morphology and    *)
(* connected-component calls on the whole mask give numFgBlobs, an input.  *)

\* main.cpp lines 165, 218-220: --max_blob_count, ViBeSequential(height,
\* width, 14, 20, 2, 5) with the number of samples bounded, SortTracker(3, 3)
MainInit ==
    /\ cost = EmptyMat
    /\ maximize = FALSE
    /\ lap = Idle
    /\ params = [maxBBoxAge |-> 3, minBBoxHitStreak |-> 3, maxTrajectoryAge |-> 15,
                 minTrajectoryNumSamples |-> 16,
                 minTrajectoryFallingDistance |-> 128, iouThreshold |-> 1]
    /\ TrackerInit
    /\ vibe = ViBeSequential(MaxSamples, 20, 2)
    /\ driver \in { Main(maxNumBlobs) : maxNumBlobs \in 1 .. MaxBlobCount }

\* main.cpp lines 289-296: segment(frame, fgMask), then update(frame,
\* updateMask), on a frame that passes their assertions
segmentAndUpdate(v, frame, noise) ==
    LET v1 == Called([segmentPixel(v, frame, noise) EXCEPT !.outcome = "ok"],
                     v, "segment", frame)
    IN  { Called([v2 EXCEPT !.outcome = "ok"], v1, "update", frame) :
              v2 \in seededUpdates(v1, frame) }

\* main.cpp lines 271-344: the body of the frame loop.  numFgBlobs is what
\* cv::connectedComponentsWithStats returns, the number of labels with the
\* background's label 0 among them; the boxes are those of labels 1 and up.
ReadFrame ==
    /\ driver.frames < MaxFrames
    /\ vibe' \in UNION { segmentAndUpdate(vibe, x[1], x[2]) :
                            x \in FramePixels \X
                                  (IF vibe.isInitalized
                                   THEN {[k \in Idx(vibe.numSamples) |-> <<0, 0, 0>>]}
                                   ELSE [Idx(vibe.numSamples) -> SeedNoise]) }
    /\ \E numFgBlobs \in 1 .. MaxDet + 1 :
          /\ IF numFgBlobs > driver.maxNumBlobs
             THEN SortTrackerClear
             ELSE /\ numFgBlobs - 1 \in Detections
                  /\ SortTrackerUpdate(numFgBlobs - 1)
          /\ driver' = [driver EXCEPT
                           !.numFgBlobs = numFgBlobs,
                           !.frames = @ + 1,
                           !.call = IF numFgBlobs > driver.maxNumBlobs
                                    THEN "clear" ELSE "update"]

MainNext == ReadFrame

SpecMain == MainInit /\ [][MainNext]_vars

-----------------------------------------------------------------------------
(* Reference notions for the solver's contract *)

MinDim(c) == IF c.rows <= c.cols THEN c.rows ELSE c.cols

\* the row/column pairs an assign vector holds
PairsOf(a) == {<<i, a[i]>> : i \in {k \in DOMAIN a : a[k] # -1}}

OneToOne(P) == \A p, q \in P : (p[1] = q[1]) <=> (p[2] = q[2])

\* every one-to-one assignment of MinDim(c) row/column pairs
FullAssignments(c) ==
    IF c.rows <= c.cols
    THEN {{<<i, f[i]>> : i \in Idx(c.rows)} :
            f \in {g \in [Idx(c.rows) -> Idx(c.cols)] :
                      \A x, y \in Idx(c.rows) : g[x] = g[y] => x = y}}
    ELSE {{<<f[j], j>> : j \in Idx(c.cols)} :
            f \in {g \in [Idx(c.cols) -> Idx(c.rows)] :
                      \A x, y \in Idx(c.cols) : g[x] = g[y] => x = y}}

BestTotal(c, mx) ==
    LET totals == {SumCells(c, P) : P \in FullAssignments(c)}
    IN  IF mx THEN MaxOf(totals) ELSE MinOf(totals)

Returned == lap.pc = "done"

NonEmpty == cost.rows >= 1 /\ cost.cols >= 1

-----------------------------------------------------------------------------
(* Claims about LAPSolver::solve, checked under SpecLAP *)

\* C1: on every m x n matrix with m, n >= 1 solve returns a one-to-one
\* assignment of exactly min(m, n) row/column pairs whose total cost is the
\* minimum over all such assignments (the maximum when maximize is set).
C1_OptimalAssignment ==
    (Returned /\ NonEmpty) =>
        LET P == PairsOf(lap.assignment)
        IN  /\ OneToOne(P)
            /\ P \subseteq Idx(cost.rows) \X Idx(cost.cols)
            /\ Cardinality(P) = MinDim(cost)
            /\ SumCells(cost, P) = BestTotal(cost, maximize)

\* C1 witness: a maximizing call on a matrix with more rows than columns
\* returned after the initial stars were not enough and a zero was primed
C1_Witness ==
    /\ Returned /\ maximize /\ cost.rows > cost.cols /\ cost.cols >= 2
    /\ lap.found # <<-1, -1>>

\* C2: the returned total is the sum of C[i, assign[i]] over the assigned
\* rows, taken on the caller's matrix, also when transposed and negated.
C2_TotalOnCallerCost ==
    Returned => lap.total = SumCells(cost, PairsOf(lap.assignment))

\* C2 witness: a transposed, maximizing call returned a non-zero total
C2_Witness ==
    Returned /\ lap.isTransposed /\ maximize /\ lap.total # 0

\* C3: assign has m entries, reverse has n, each -1 or a valid index, assign
\* is injective on its assigned entries and reverse is its exact inverse.
C3_AssignReverseInverse ==
    Returned =>
        /\ DOMAIN lap.assignment = Idx(cost.rows)
        /\ DOMAIN lap.assignmentReversed = Idx(cost.cols)
        /\ \A i \in Idx(cost.rows) : lap.assignment[i] \in {-1} \cup Idx(cost.cols)
        /\ \A j \in Idx(cost.cols) : lap.assignmentReversed[j] \in {-1} \cup Idx(cost.rows)
        /\ \A i, k \in Idx(cost.rows) :
              (lap.assignment[i] # -1 /\ lap.assignment[i] = lap.assignment[k]) => i = k
        /\ \A i \in Idx(cost.rows), j \in Idx(cost.cols) :
              (lap.assignment[i] = j) <=> (lap.assignmentReversed[j] = i)

\* C3 witness: a transposed call returned with a row left unassigned
C3_Witness ==
    /\ Returned /\ lap.isTransposed /\ cost.cols >= 2
    /\ \E i \in Idx(cost.rows) : lap.assignment[i] = -1
    /\ \E i \in Idx(cost.rows) : lap.assignment[i] > 0

Cost5x4 ==
    FromRows(<< <<5, 10, 15, 20>>, <<15, 20, 30, 10>>, <<10, 20, 15, 30>>,
                <<20, 10, 10, 45>>, <<50, 50, 50, 50>> >>)

\* C4: on the 5x4 test matrix, minimizing, solve returns total 40 with
\* rows 0..4 assigned to columns 0, 3, 2, 1 and -1.
C4_Test5x4 ==
    (Returned /\ cost = Cost5x4 /\ ~maximize) =>
        /\ lap.total = 40
        /\ lap.assignment = [i \in Idx(5) |-> CASE i = 0 -> 0 [] i = 1 -> 3
                                                [] i = 2 -> 2 [] i = 3 -> 1
                                                [] OTHER -> -1]

\* C4 witness: the minimizing call on the 5x4 matrix returned
C4_Witness == Returned /\ cost = Cost5x4 /\ ~maximize

\* the result t of the call on the transposed matrix is the transposed result
TransposeAgrees(t) ==
    /\ t.pc = "done"
    /\ t.assignment = lap.assignmentReversed
    /\ t.assignmentReversed = lap.assignment

UniqueOptimum(c, mx) ==
    Cardinality({P \in FullAssignments(c) : SumCells(c, P) = BestTotal(c, mx)}) = 1

\* C5 as stated: for every matrix, square ones with tied optima included,
\* solve on the transposed matrix returns the transposed assignment.
C5_TransposeAlways ==
    Returned => TransposeAgrees(solve(Transposed(cost), maximize))

\* C5 amended: solve on the transposed matrix returns the transposed
\* assignment whenever the matrix is not square or its optimal assignment is
\* unique; in every case the two calls return the same total.
C5_TransposeUnlessTiedSquare ==
    Returned =>
        LET t == solve(Transposed(cost), maximize)
        IN  /\ t.total = lap.total
            /\ (cost.rows # cost.cols \/ ~NonEmpty \/ UniqueOptimum(cost, maximize))
                  => TransposeAgrees(t)

\* C5 witness: a call on a non-square matrix with tied optima returned
C5_Witness ==
    /\ Returned /\ NonEmpty /\ cost.rows # cost.cols /\ MinDim(cost) >= 2
    /\ ~UniqueOptimum(cost, maximize)
    /\ lap.found # <<-1, -1>>

\* C6: with m = 0 or n = 0 solve returns total 0 without running any step of
\* the algorithm, assign has m entries and reverse n entries, all -1.
C6_EmptyMatrix ==
    (lap.pc # "idle" /\ ~NonEmpty) =>
        /\ Returned
        /\ lap.total = 0
        /\ lap.assignment = [i \in Idx(cost.rows) |-> -1]
        /\ lap.assignmentReversed = [j \in Idx(cost.cols) |-> -1]
        /\ lap.workingCost = <<>> /\ lap.markerTable = <<>>

\* C6 witness: a call with no rows and several columns returned
C6_Witness == Returned /\ cost.rows = 0 /\ cost.cols >= 2

-----------------------------------------------------------------------------
(* Claims about SortTracker, checked under Spec *)

C7_AfterUpdate == \A tag \in DOMAIN tracks : tracks[tag].age <= params.maxBBoxAge

\* what one update does to the tracks it found: a survivor was matched
\* (age 0) or aged by one within the limit; a track is gone exactly when its
\* age after the unmatched predict is over the limit
C7_Step ==
    (last'.op = "update") =>
        \A tag \in DOMAIN tracks :
            IF tag \in DOMAIN tracks'
            THEN \/ tracks'[tag].age = 0
                 \/ /\ tracks'[tag].age = tracks[tag].age + 1
                    /\ tracks'[tag].age <= params.maxBBoxAge
            ELSE /\ tracks[tag].age + 1 > params.maxBBoxAge
                 /\ tag \in last'.expired

C8_TagsNeverReused ==
    /\ \A i, j \in 1 .. Len(issued) : i < j => issued[i].tag < issued[j].tag
    /\ \A tag \in DOMAIN tracks : issued[tracks[tag].uid].tag = tag
    /\ \A tag \in DOMAIN trajectories :
          \A k \in 1 .. Len(trajectories[tag].samples) :
              issued[trajectories[tag].samples[k].src].tag = tag

\* C8 witness: a track created after a clear, with tags issued before the
\* clear, has produced a trajectory
C8_Witness ==
    \E tag \in DOMAIN trajectories :
        /\ trajectories[tag].samples # <<>>
        /\ \E i, j \in 1 .. Len(issued) :
              i < j /\ issued[i].clears < issued[j].clears /\ issued[j].tag = tag

C9_AtMostOnce ==
    /\ \A tag \in DOMAIN callbacks : callbacks[tag] <= 1
    /\ last.op = "construct" => callbacks = <<>>

C9_OnlyInUpdate == (callbacks' # callbacks) => last'.op = "update"

\* C9: the trajectory-ended callback runs at most once for a tag, and only
\* during update: not during clear, not at construction.
C9_CallbackOncePerTag == []C9_AtMostOnce /\ [][C9_OnlyInUpdate]_vars

\* C9 witness: clear was called after an update had reported a trajectory
C9_Witness ==
    /\ last.op = "clear"
    /\ \E tag \in DOMAIN callbacks : callbacks[tag] = 1

\* C10: a trajectory removed in the sweep is reported to the callback iff it
\* has at least minTrajectoryNumSamples samples and its first and last
\* y-centres differ by at least minTrajectoryFallingDistance.
C10_CallbackIffFalling ==
    /\ last.fired \subseteq {r.tag : r \in last.swept}
    /\ \A r \in last.swept :
          (r.tag \in last.fired) <=>
              /\ Len(r.trajectory.samples) >= params.minTrajectoryNumSamples
              /\ getRangeY(r.trajectory) >= params.minTrajectoryFallingDistance

\* C10 witness: one sweep removed a reported trajectory and one with enough
\* samples that fell short of the distance
C10_Witness ==
    \E r1, r2 \in last.swept :
        /\ r1.tag \in last.fired
        /\ r2.tag \notin last.fired
        /\ Len(r2.trajectory.samples) >= params.minTrajectoryNumSamples

\* what the claim expects of one update: a trajectory that is kept and got
\* no sample is one older
C11_Step ==
    (last'.op = "update") =>
        \A tag \in DOMAIN trajectories \cap DOMAIN trajectories' :
            trajectories'[tag].samples = trajectories[tag].samples
                => trajectories'[tag].age = trajectories[tag].age + 1

\* C11: a stored trajectory that receives no sample during an update and is
\* not removed has its stored age increased by one by that update.
C11_UnsampledTrajectoryAges == [][C11_Step]_vars

C12_NoOrphan == DOMAIN trajectories \subseteq DOMAIN tracks

\* an update that expires a track with a stored trajectory sweeps that
\* trajectory, reporting it iff it qualifies
C12_Step ==
    (last'.op = "update") =>
        \A tag \in last'.expired \cap DOMAIN trajectories :
            /\ tag \notin DOMAIN trajectories'
            /\ \E r \in last'.swept :
                  /\ r.tag = tag
                  /\ r.trajectory.samples = trajectories[tag].samples
                  /\ (tag \in last'.fired) <=> isFallingObjectTrajectory(params, r.trajectory)

\* C12: the trajectory of a track that an update expires is removed, and
\* reported if it qualifies, within that update; it never outlives its track.
C12_EndsWithItsTrack == []C12_NoOrphan /\ [][C12_Step]_vars

\* C12 witness: an update expired a track and swept and reported its trajectory
C12_Witness ==
    /\ last.op = "update"
    /\ \E tag \in last.expired : tag \in last.fired /\ tag \notin DOMAIN trajectories

C13_EmptyUpdate == last'.op = "update" /\ last'.detections = 0

\* C13: an update with an empty detection list creates no track, invokes no
\* end callback, and advances the age of every existing track by one.
C13_EmptyUpdateIsQuiet ==
    [][C13_EmptyUpdate =>
          /\ tagCount' = tagCount
          /\ DOMAIN tracks' \subseteq DOMAIN tracks
          /\ last'.fired = {}
          /\ \A tag \in DOMAIN tracks' : tracks'[tag].age = tracks[tag].age + 1]_vars

\* C13 as the code has it: no track is created, every track ages by one and
\* is removed when over maxBBoxAge, and the callback runs only for the
\* trajectories of the tracks this update removed.
C13_EmptyUpdateOnlyEndsExpired ==
    [][C13_EmptyUpdate =>
          /\ tagCount' = tagCount
          /\ DOMAIN tracks' \subseteq DOMAIN tracks
          /\ last'.fired \subseteq last'.expired
          /\ \A tag \in DOMAIN tracks :
                IF tracks[tag].age + 1 <= params.maxBBoxAge
                THEN tag \in DOMAIN tracks' /\ tracks'[tag].age = tracks[tag].age + 1
                ELSE tag \in last'.expired]_vars

\* C13 witness: an update without detections aged one track and expired
\* another, whose trajectory it reported
C13_Witness ==
    /\ last.op = "update"
    /\ last.detections = 0
    /\ last.fired # {}
    /\ \E tag \in DOMAIN tracks : tracks[tag].age >= 1

\* the tracks no detection has been matched to since they were created
C14_NeverMatched == {tag \in DOMAIN tracks : tracks[tag].numHits = 0}

C14_NoStreakNoTrajectory ==
    \A tag \in C14_NeverMatched :
        /\ tracks[tag].numConsecutiveHits = 0
        /\ tracks[tag].numConsecutiveHits < params.minBBoxHitStreak
        /\ tag \notin DOMAIN trajectories
        /\ tracks[tag].age <= params.maxBBoxAge

\* every update after its creation ages a never-matched track by one, so its
\* age counts the updates since frame k
C14_Step ==
    (last'.op = "update") =>
        \A tag \in C14_NeverMatched :
            (tag \in DOMAIN tracks' /\ tracks'[tag].numHits = 0)
                => tracks'[tag].age = tracks[tag].age + 1

\* C14: a track created at frame k and matched in no later frame never gets a
\* hit streak or a trajectory and is gone after update k + maxBBoxAge + 1.
C14_TransientTrack == []C14_NoStreakNoTrajectory /\ [][C14_Step]_vars

\* C14 witness: a never-matched track at the age limit, one update before
\* its removal, next to a track that has a trajectory
C14_Witness ==
    /\ params.maxBBoxAge >= 1
    /\ \E tag \in C14_NeverMatched : tracks[tag].age = params.maxBBoxAge
    /\ trajectories # <<>>

-----------------------------------------------------------------------------
(* Claims about the falling-bottle run, checked under SpecBottle *)

C15_TotalCallbacks == Cardinality({tag \in DOMAIN callbacks : callbacks[tag] >= 1})

\* C15: the 30 updates showing the object result in exactly one end-callback
\* invocation.
C15_OneCallbackAfter30 ==
    frameCount = BottleScenario.frames => C15_TotalCallbacks = 1

\* C15 as the code has it: no callback during the 30 updates, which leave a
\* stored trajectory of 27 samples; the one callback comes in update
\* 30 + maxBBoxAge + 1, when the track expires, for a trajectory of at least
\* 16 samples that fell at least 128 px.
C15_OneCallbackWhenTrackExpires ==
    /\ \A tag \in DOMAIN callbacks : callbacks[tag] = 1
    /\ C15_TotalCallbacks =
          IF frameCount >= BottleScenario.frames + params.maxBBoxAge + 1 THEN 1 ELSE 0
    /\ frameCount = BottleScenario.frames =>
          /\ DOMAIN trajectories = {0}
          /\ Len(trajectories[0].samples) = BottleScenario.frames - params.minBBoxHitStreak
          /\ getRangeY(trajectories[0]) = 260
    /\ last.fired # {} =>
          /\ frameCount = BottleScenario.frames + params.maxBBoxAge + 1
          /\ \A r \in last.swept :
                /\ r.tag \in last.fired
                /\ Len(r.trajectory.samples) = 27 + params.maxBBoxAge
                /\ Len(r.trajectory.samples) >= 16
                /\ getRangeY(r.trajectory) >= 128

\* C15 witness: with maxBBoxAge 2 the 33rd update reported the trajectory
C15_Witness ==
    /\ params.maxBBoxAge = 2
    /\ frameCount = 33
    /\ last.fired = {0}
    /\ callbacks[0] = 1

-----------------------------------------------------------------------------
(* More claims about SortTracker, checked under Spec *)

C16_AfterClear ==
    last.op = "clear" => tracks = <<>> /\ trajectories = <<>> /\ last.fired = {}

\* clear invokes no callback; the update after a clear makes one fresh track
\* per detection, under tags not issued before, and nothing else
C16_Step ==
    /\ (last'.op = "clear") => callbacks' = callbacks
    /\ (last.op = "clear" /\ last'.op = "update") =>
          /\ DOMAIN tracks' = tagCount .. (tagCount + last'.detections - 1)
          /\ tagCount' = tagCount + last'.detections
          /\ \A tag \in DOMAIN tracks' :
                /\ tracks'[tag].age = 0 /\ tracks'[tag].numHits = 0
                /\ \A i \in 1 .. Len(issued) : issued[i].tag # tag
          /\ last'.expired = {} /\ last'.fired = {}

\* C16: clear leaves tracks and trajectories empty and invokes no callback,
\* also for stored trajectories that qualify; the next update takes the
\* bootstrap path and creates one fresh track per detection.
C16_ClearThenBootstrap == []C16_AfterClear /\ [][C16_Step]_vars

\* C16 witness: clear dropped a qualifying trajectory that was never reported
C16_Witness ==
    /\ last.op = "clear"
    /\ \E r \in last.dropped :
          /\ isFallingObjectTrajectory(params, r.trajectory)
          /\ r.tag \notin DOMAIN callbacks

-----------------------------------------------------------------------------
(* Claims about ViBeSequential, checked under SpecViBe *)

\* the stored values of the pixel, as the last call found them, that are
\* within the threshold of the frame's pixel
C17_NumClose ==
    (IF isClose(vibe.before.historyImage0, vibe.frame, vibe.thresholdL1) THEN 1 ELSE 0)
    + (IF isClose(vibe.before.historyImage1, vibe.frame, vibe.thresholdL1) THEN 1 ELSE 0)
    + Cardinality({k \in Idx(vibe.numSamples) :
                     isClose(vibe.before.historySamples[k], vibe.frame, vibe.thresholdL1)})

C17_SeededSegment ==
    vibe.op = "segment" /\ vibe.outcome = "ok" /\ vibe.before.isInitalized

\* C17: for every kappa >= 1 segment sets fgMask[p] to 0 exactly when at
\* least kappa of the stored values of p are within the threshold of
\* frame[p], and to 255 otherwise.
C17_MaskCountsCloseValues ==
    C17_SeededSegment =>
        vibe.fgMask = IF C17_NumClose >= vibe.minNumCloseSamples THEN 0 ELSE 255

\* C18: whenever the model is unseeded (fresh, or after clear), segment(f)
\* reseeds it from f and returns fgMask[p] = 0, for every N >= 1,
\* threshold >= 0 and kappa >= 1.
C18_ReseedGivesBackground ==
    (vibe.op = "segment" /\ vibe.outcome = "ok" /\ ~vibe.before.isInitalized) =>
        /\ vibe.isInitalized
        /\ vibe.fgMask = 0

C18_UnseededSegment ==
    vibe.op = "segment" /\ vibe.outcome = "ok" /\ ~vibe.before.isInitalized

\* the seeded samples of p within the threshold of the frame's pixel; a swap
\* puts the history pixel, equal to the frame's, in the place of a close
\* sample, so the number is the same before and after the comparisons
C18_CloseSeeds ==
    Cardinality({k \in Idx(vibe.numSamples) :
                   isClose(vibe.historySamples[k], vibe.frame, vibe.thresholdL1)})

\* C18 as the code has it, for kappa >= 2: segment on an unseeded model
\* reseeds it and returns 0 exactly when at least kappa - 2 of the seeded
\* samples are within the threshold, so always for kappa = 2.
C18_ReseedNeedsCloseSeeds ==
    (C18_UnseededSegment /\ vibe.minNumCloseSamples >= 2) =>
        /\ vibe.isInitalized
        /\ vibe.fgMask \in {0, 255}
        /\ (vibe.fgMask = 0) <=> (C18_CloseSeeds >= vibe.minNumCloseSamples - 2)

\* C18 witness: after clear, segment reseeded a model with kappa = 3 and
\* found the one close seed it needs
C18_Witness ==
    /\ C18_UnseededSegment
    /\ vibe.before.tables = "seeded"
    /\ vibe.minNumCloseSamples = 3
    /\ vibe.fgMask = 0

\* C19: update on a model that segment has never seeded is detected as a
\* precondition violation and aborts with a diagnostic; the scans never run
\* on unseeded tables.
C19_UnseededUpdateAborts ==
    (vibe.op = "update" /\ vibe.before.tables = "zero") => vibe.outcome = "assert"

-----------------------------------------------------------------------------
(* Claims about the driver, checked under SpecMain *)

\* the detection boxes the driver extracts from the last frame: one for each
\* label but the background's
C20_Detections == driver.numFgBlobs - 1

\* C20: the driver calls tracker.clear() and skips tracker.update for a
\* frame exactly when the number of detection boxes extracted from it is
\* greater than maxBlobs; a frame with exactly maxBlobs detections, or
\* fewer, is passed to tracker.update.
C20_ClearIffMoreThanMaxBlobs ==
    driver.frames > 0 =>
        /\ (driver.call = "clear") <=> (C20_Detections > driver.maxNumBlobs)
        /\ (driver.call = "update") <=> (C20_Detections <= driver.maxNumBlobs)
        /\ (driver.call = "clear") => last.op = "clear"
        /\ (driver.call = "update") =>
              (last.op = "update" /\ last.detections = C20_Detections)

-----------------------------------------------------------------------------
(* Claims about the hit streak and the association, checked under Spec *)

\* the frames in a row, ending with the last update, in which a matched
\* detection updated the track
C23_ConsecutiveMatches(track) == IF track.age = 0 THEN track.run ELSE 0

\* C23: after every update the hit streak of each track is the number of
\* consecutive frames, ending with the current one, in which a matched
\* detection updated the track; it is 0 after an update that did not match
\* the track, so a coasting track never satisfies canPick.
C23_HitStreakCountsConsecutiveMatches ==
    \A tag \in DOMAIN tracks :
        /\ tracks[tag].numConsecutiveHits = C23_ConsecutiveMatches(tracks[tag])
        /\ (tracks[tag].age > 0 /\ params.minBBoxHitStreak >= 1) =>
              ~canPick(params, tracks[tag])

\* the samples the trajectory of tag holds in the map m
C22_Samples(m, tag) == IF tag \in DOMAIN m THEN m[tag].samples ELSE <<>>

\* the update appended exactly one sample, taken from the track, to the
\* trajectory of tag
C22_Appended(tag) ==
    /\ tag \in DOMAIN trajectories' /\ tag \in DOMAIN tracks'
    /\ Len(trajectories'[tag].samples) = Len(C22_Samples(trajectories, tag)) + 1
    /\ SubSeq(trajectories'[tag].samples, 1, Len(C22_Samples(trajectories, tag)))
           = C22_Samples(trajectories, tag)
    /\ trajectories'[tag].samples[Len(trajectories'[tag].samples)].src
           = tracks'[tag].uid

\* the update left the samples of tag as they were, or removed the trajectory
C22_NotAppended(tag) ==
    tag \in DOMAIN trajectories' =>
        trajectories'[tag].samples = C22_Samples(trajectories, tag)

\* the update created the trajectory of tag
C22_Created(tag) == tag \notin DOMAIN trajectories /\ tag \in DOMAIN trajectories'

C22_SampleStep ==
    last'.op = "update" =>
        \A tag \in DOMAIN tracks' \cup DOMAIN trajectories \cup DOMAIN trajectories' :
            IF tag \in DOMAIN tracks' /\ canPick(params, tracks'[tag])
            THEN C22_Appended(tag)
            ELSE C22_NotAppended(tag)

C22_CreationStep ==
    last'.op = "update" =>
        \A tag \in DOMAIN tracks' :
            C22_Created(tag) <=>
                /\ tag \notin DOMAIN trajectories
                /\ C23_ConsecutiveMatches(tracks'[tag]) = params.minBBoxHitStreak

\* C22: in every update a sample is appended to the trajectory of tag t if
\* and only if t is in tracks at the end of the association with hitStreak
\* >= minBBoxHitStreak, and then exactly one; so the trajectory of a new track
\* is first created in the update that delivers its minBBoxHitStreak-th
\* consecutive matched detection, and never earlier.
C22_SampleIffOnStreak == [][C22_SampleStep /\ C22_CreationStep]_vars

\* the tracks before the update in tag order, as _predictions holds them
C24_Tags == [i \in Idx(Cardinality(DOMAIN tracks)) |-> Nth(DOMAIN tracks, i)]

\* detection j was assigned to prediction i with an IoU above the threshold
C24_GoodPair(i, j) ==
    last'.matches[i] = j /\ last'.matchedIou[i] > params.iouThreshold

\* the update updated the track once with a detection
C24_Updated(tag) ==
    /\ tag \in DOMAIN tracks'
    /\ tracks'[tag].numHits = tracks[tag].numHits + 1
    /\ tracks'[tag].age = 0

\* the update did not update the track: it is gone, or coasts
C24_NotUpdated(tag) ==
    tag \in DOMAIN tracks' =>
        (tracks'[tag].numHits = tracks[tag].numHits /\ tracks'[tag].age > 0)

C24_Step ==
    (last'.op = "update" /\ DOMAIN tracks # {}) =>
        LET n == last'.detections
            preds == Idx(Cardinality(DOMAIN tracks))
            updating == {j \in Idx(n) : \E i \in preds : C24_GoodPair(i, j)}
            created == DOMAIN tracks' \ DOMAIN tracks
        IN  /\ \A j \in updating :
                  Cardinality({i \in preds : C24_GoodPair(i, j)}) = 1
            /\ \A i \in preds :
                  IF \E j \in Idx(n) : C24_GoodPair(i, j)
                  THEN /\ C24_Updated(C24_Tags[i])
                       /\ Cardinality({j \in Idx(n) : C24_GoodPair(i, j)}) = 1
                  ELSE C24_NotUpdated(C24_Tags[i])
            /\ Cardinality(created) = n - Cardinality(updating)
            /\ \A tag \in created : tracks'[tag] = TrackedBBox(tracks'[tag].uid)
            /\ \A j \in Idx(n) :
                  (j \in updating) <=> (last'.matchesReversed[j] # -1)

\* C24: in every update with a non-empty track set each detection either
\* updates exactly one existing track, the prediction assigned to it with an
\* IoU above the threshold, or creates exactly one new track, never both or
\* neither; no track is updated by two detections; an assigned pair with an
\* IoU at or below the threshold leaves the track un-updated and the
\* detection creating a track.
C24_DetectionUpdatesOrCreates == [][C24_Step]_vars

\* C24 witness: an update in which the detection assigned to the only
\* track had an IoU at the threshold: the track coasts and the detection
\* made a new track
C24_Witness ==
    /\ last.op = "update" /\ last.detections = 1
    /\ DOMAIN last.matches = {0}
    /\ last.matches[0] = 0
    /\ last.matchedIou[0] = params.iouThreshold
    /\ last.matchesReversed[0] = -1
    /\ \E tag \in DOMAIN tracks : tracks[tag].numHits = 0 /\ tracks[tag].age = 0
    /\ \E tag \in DOMAIN tracks : tracks[tag].age > 0

\* C30: after every update and after clear every tag present in
\* trajectories is present in tracks, so a trajectory does not outlive its
\* track beyond the update that removed the track, and every trajectory
\* belongs to a tag that was issued to a track, the one whose samples it holds.
C30_TrajectoriesHaveTracks ==
    \A tag \in DOMAIN trajectories :
        /\ tag \in DOMAIN tracks
        /\ \E i \in 1 .. Len(issued) : issued[i].tag = tag
        /\ \A k \in 1 .. Len(trajectories[tag].samples) :
              trajectories[tag].samples[k].src = tracks[tag].uid

\* C30 witness: an update removed a track and with it its trajectory, while
\* another track keeps its trajectory
C30_Witness ==
    /\ last.op = "update"
    /\ \E r \in last.swept : r.tag \in last.expired /\ r.tag \notin DOMAIN trajectories
    /\ DOMAIN trajectories # {}

-----------------------------------------------------------------------------
(* Claims about the scans and the termination of solve, checked under SpecLAP *)

\* C25: every search for an uncovered zero in step 4 scans the working
\* matrix in row-major order from (0,0), so the zero that gets primed is
\* always the first uncovered zero in row-major order.
C25_PrimesFirstUncoveredZero == lap.found = lap.first

\* solve is sequential code: once called, the step it is at is always taken
SpecLAPLive ==
    /\ SpecLAP
    /\ WF_vars(ReduceRows)
    /\ WF_vars(FindInitialStarredZeros)
    /\ WF_vars(CoverColsWithStarredZeros)
    /\ WF_vars(PrimeUncoveredZeros)
    /\ WF_vars(FindMaximalMatching)
    /\ WF_vars(SolveFinish)

\* C26: solve terminates on every non-empty finite cost matrix, minimizing
\* and maximizing: the loop over steps 3-6 reaches the state where the number
\* of columns holding a starred zero equals the number of rows of the working
\* matrix, and adjustCost is never invoked when no uncovered entry exists.
C26_SolveTerminates ==
    /\ [](~lap.emptyAdjust /\ ~lap.fault)
    /\ [](lap.pc = "assign" => numColsCovered(lap) = lap.m)
    /\ (lap.pc # "idle") ~> Returned

\* C26 witness: a maximizing call on a 3x2 matrix returned after the loop
\* over steps 3-6 had primed a zero, with a star in as many columns as the
\* working matrix has rows
C26_Witness ==
    /\ Returned /\ maximize /\ cost.rows = 3 /\ cost.cols = 2
    /\ lap.found # <<-1, -1>>
    /\ numColsCovered(lap) = lap.m

-----------------------------------------------------------------------------
(* ViBeSequential over the whole image: the tables init fills and the     *)
(* scans of update, with the table, pixel and slot indices they use.  The  *)
(* colours are left out: a write is the pair of the pixel index and the    *)
(* slot k it overwrites (0 and 1 the history images, from 2 on sample      *)
(* k - 2).  The shifts update draws are inputs of the scans.               *)

\* the largest height and width explored
MaxSide == 3

\* the largest number of samples per pixel explored by the scans
MaxScanSamples == 3

\* the largest update factor explored
MaxUpdateFactor == 2

\* a faulty table size: one entry per row or column
tableSizeMutant(height, width) ==
    IF width > height THEN width + 1 ELSE height + 1

\* line 39
tableSize(height, width) ==
    IF width > height THEN 2 * width + 1 ELSE 2 * height + 1

\* cv::RNG::uniform(a, b): an integer from a to b - 1
uniform(a, b) == a .. (b - 1)

\* no scan made yet
NoScan ==
    [kind |-> "none", line |-> 0, ind |-> 0, shift |-> 0, k |-> 0,
     neighborIndex |-> 0, reads |-> {}, visited |-> {}, writes |-> {},
     iterations |-> 0, fault |-> FALSE]

\* lines 17-43 with the tables: resize zero-fills them
ViBeTables(height, width, numSamples, updateFactor) ==
    [h |-> height, w |-> width, numSamples |-> numSamples,
     updateFactor |-> updateFactor, isInitalized |-> FALSE,
     jump |-> [i \in Idx(tableSize(height, width)) |-> 0],
     replaceIndex |-> [i \in Idx(tableSize(height, width)) |-> 0],
     neighborIndex |-> [i \in Idx(tableSize(height, width)) |-> 0],
     updateMask |-> [i \in Idx(height * width) |-> 255],
     pc |-> "idle", y |-> 0, scan |-> NoScan]

\* the fillings of a table explored, of those which draw each entry from
\* values: every constant table
ConstantTables(size, values) == { [i \in Idx(size) |-> x] : x \in values }

\* and the table that goes through the values in turn
CyclingTable(size, values) ==
    [i \in Idx(size) |-> MinOf(values) + (i % Cardinality(values))]

\* lines 269-274: the tables init can draw
initTables(v) ==
    { [v EXCEPT !.jump = t[1], !.replaceIndex = t[2], !.neighborIndex = t[3],
                !.isInitalized = TRUE] :
        t \in (ConstantTables(Cardinality(DOMAIN v.jump), uniform(1, v.updateFactor * 2 + 1))
                 \cup {CyclingTable(Cardinality(DOMAIN v.jump),
                                     uniform(1, v.updateFactor * 2 + 1))})
              \X ConstantTables(Cardinality(DOMAIN v.jump), uniform(0, v.numSamples))
              \X ConstantTables(Cardinality(DOMAIN v.jump), uniform(-1, 2)) }

\* a faulty replaceSample that does not look at the mask
replaceSampleMutant(v, i, k) == { <<i, k>> }

\* lines 172-187: the write of a border scan at pixel i
replaceSample(v, i, k) ==
    IF v.updateMask[i] = 0 THEN { <<i, k>> } ELSE {}

\* lines 145-165: the writes of an interior scan at pixel i
replaceWithNeighbor(v, i, k, neighborIndex) ==
    IF v.updateMask[i] = 0
    THEN { <<i, k>>, <<i + neighborIndex, k>> } ELSE {}

\* the rows' scans run over x, the columns' over y
RowKinds == {"interior", "firstRow", "lastRow"}

\* lines 134-138, 190-193, 205-208, 220-223, 235-238: the start of a scan
\* of the given line (a row y or a column x) with the shift drawn
scanStart(v, kind, line, shift) ==
    [kind |-> kind, line |-> line, ind |-> v.jump[shift], shift |-> shift,
     k |-> v.replaceIndex[shift],
     neighborIndex |-> IF kind = "interior" THEN v.neighborIndex[shift] ELSE 0,
     reads |-> {shift}, visited |-> {}, writes |-> {}, iterations |-> 0,
     fault |-> FALSE]

\* lines 140, 195, 210, 225, 240: the loop's test
scanGoesOn(v, sc) ==
    IF sc.kind = "interior" THEN sc.ind < v.w - 1
    ELSE IF sc.kind \in RowKinds THEN sc.ind <= v.w - 1
    ELSE sc.ind <= v.h - 1

\* lines 141, 196, 211, 226, 241: the pixel index of the visit
scanPixel(v, sc) ==
    IF sc.kind \in RowKinds THEN sc.ind + sc.line * v.w
    ELSE sc.line + sc.ind * v.w

\* lines 140-169, 195-202, 210-217, 225-232, 240-247: the loop of a scan.
\* A read of the mask or of a table past its end is undefined: the scan is
\* marked faulty and followed no further.
RECURSIVE scanLoop(_, _)
scanLoop(v, sc) ==
    IF ~scanGoesOn(v, sc) THEN sc
    ELSE LET i == scanPixel(v, sc)
             shift == sc.shift + 1
         IN  IF i \notin DOMAIN v.updateMask
             THEN [sc EXCEPT !.visited = @ \cup {i}, !.fault = TRUE]
             ELSE LET sc1 == [sc EXCEPT
                                 !.visited = @ \cup {i},
                                 !.writes = @ \cup
                                     (IF sc.kind = "interior"
                                      THEN replaceWithNeighbor(
                                               v, i, sc.k, sc.neighborIndex)
                                      ELSE replaceSample(v, i, sc.k)),
                                 !.shift = shift,
                                 !.reads = @ \cup {shift},
                                 !.iterations = @ + 1]
                  IN  IF shift \notin DOMAIN v.jump
                      THEN [sc1 EXCEPT !.fault = TRUE]
                      ELSE scanLoop(v, [sc1 EXCEPT !.ind = @ + v.jump[shift]])

\* a whole scan
scan(v, kind, line, shift) == scanLoop(v, scanStart(v, kind, line, shift))

\* the masks explored: all background, all foreground, and the two
\* checkerboards over the pixel index
UpdateMasks(v) ==
    { [i \in Idx(v.h * v.w) |-> x] : x \in {0, 255} }
    \cup { [i \in Idx(v.h * v.w) |-> IF i % 2 = r THEN 0 ELSE 255] :
              r \in {0, 1} }

ScanInit ==
    /\ cost = EmptyMat
    /\ maximize = FALSE
    /\ lap = Idle
    /\ params = CHOOSE p \in ParamSets : TRUE
    /\ TrackerInit
    /\ vibe \in { ViBeTables(height, width, n, f) :
                     height \in 2 .. MaxSide, width \in 2 .. MaxSide,
                     n \in 1 .. MaxScanSamples, f \in 1 .. MaxUpdateFactor }
    /\ driver = Main(1)

\* lines 59-62 and 251-277: the first segment fills the tables
SeedTables ==
    /\ ~vibe.isInitalized
    /\ vibe' \in initTables(vibe)
    /\ UNCHANGED <<lapVars, trackerVars, driver>>

\* lines 117-131: update is called on the seeded model with a mask
UpdateBegin ==
    /\ vibe.isInitalized
    /\ vibe.pc = "idle"
    /\ vibe' \in { [vibe EXCEPT !.updateMask = mask, !.pc = "rows", !.y = 1,
                                !.scan = NoScan] : mask \in UpdateMasks(vibe) }
    /\ UNCHANGED <<lapVars, trackerVars, driver>>

\* lines 133-170: the scan of one interior row
ScanInteriorRow ==
    /\ vibe.pc = "rows"
    /\ vibe.y < vibe.h - 1
    /\ ~vibe.scan.fault
    /\ vibe' \in { [vibe EXCEPT !.scan = scan(vibe, "interior", vibe.y, shift),
                                !.y = @ + 1] : shift \in uniform(0, vibe.w) }
    /\ UNCHANGED <<lapVars, trackerVars, driver>>

\* lines 189-202
ScanFirstRow ==
    /\ vibe.pc = "rows"
    /\ ~(vibe.y < vibe.h - 1)
    /\ ~vibe.scan.fault
    /\ vibe' \in { [vibe EXCEPT !.scan = scan(vibe, "firstRow", 0, shift),
                                !.pc = "lastRow"] :
                      shift \in uniform(0, vibe.w) }
    /\ UNCHANGED <<lapVars, trackerVars, driver>>

\* lines 204-217
ScanLastRow ==
    /\ vibe.pc = "lastRow"
    /\ ~vibe.scan.fault
    /\ vibe' \in { [vibe EXCEPT
                       !.scan = scan(vibe, "lastRow", vibe.h - 1, shift),
                       !.pc = "firstCol"] : shift \in uniform(0, vibe.w) }
    /\ UNCHANGED <<lapVars, trackerVars, driver>>

\* lines 219-232
ScanFirstCol ==
    /\ vibe.pc = "firstCol"
    /\ ~vibe.scan.fault
    /\ vibe' \in { [vibe EXCEPT !.scan = scan(vibe, "firstCol", 0, shift),
                                !.pc = "lastCol"] :
                      shift \in uniform(0, vibe.h) }
    /\ UNCHANGED <<lapVars, trackerVars, driver>>

\* lines 234-247: after the last column update returns
ScanLastCol ==
    /\ vibe.pc = "lastCol"
    /\ ~vibe.scan.fault
    /\ vibe' \in { [vibe EXCEPT
                       !.scan = scan(vibe, "lastCol", vibe.w - 1, shift),
                       !.pc = "idle"] : shift \in uniform(0, vibe.h) }
    /\ UNCHANGED <<lapVars, trackerVars, driver>>

ScanNext ==
    \/ SeedTables
    \/ UpdateBegin
    \/ ScanInteriorRow
    \/ ScanFirstRow
    \/ ScanLastRow
    \/ ScanFirstCol
    \/ ScanLastCol

SpecScan == ScanInit /\ [][ScanNext]_vars

-----------------------------------------------------------------------------
(* Claims on the scans of update *)

\* the larger of height and width
C29_MaxSide == IF vibe.w > vibe.h THEN vibe.w ELSE vibe.h

\* C29: on a seeded model with an update factor of at least 1 and a height
\* and width of at least 2, every scan of update ends by its loop test
\* after at most max(H, W) visits, reads the tables only at indices from 0
\* to 2 * max(H, W), and writes only pixels with an index from 0 to
\* H * W - 1, the neighbour's included.
C29_ScansStayInBounds ==
    vibe.scan.kind # "none" =>
        /\ ~vibe.scan.fault
        /\ ~scanGoesOn(vibe, vibe.scan)
        /\ vibe.scan.iterations <= C29_MaxSide
        /\ vibe.scan.reads \subseteq 0 .. (2 * C29_MaxSide)
        /\ vibe.scan.visited \subseteq Idx(vibe.h * vibe.w)
        /\ \A wr \in vibe.scan.writes : wr[1] \in Idx(vibe.h * vibe.w)

\* an interior scan of the widest image that starts at the last shift,
\* visits every pixel it can, so that it reads the jump table furthest, and
\* writes the neighbour in the last column
C29_Witness ==
    /\ vibe.scan.kind = "interior"
    /\ vibe.w = MaxSide
    /\ vibe.scan.iterations = vibe.w - 2
    /\ (2 * vibe.w - 3) \in vibe.scan.reads
    /\ \E wr \in vibe.scan.writes :
          wr[1] = vibe.scan.line * vibe.w + vibe.w - 1

\* p is the neighbour in its row of q, a pixel an interior scan visits
C27_RowNeighbour(p, q) ==
    /\ p \div vibe.w = q \div vibe.w
    /\ Abs(p - q) = 1
    /\ q % vibe.w \in 1 .. (vibe.w - 2)
    /\ q \div vibe.w \in 1 .. (vibe.h - 2)

C27_Writes ==
    \A wr \in vibe.scan.writes :
        /\ wr[1] \in DOMAIN vibe.updateMask
        /\ \/ vibe.updateMask[wr[1]] = 0
           \/ /\ vibe.scan.kind = "interior"
              /\ \E q \in vibe.scan.visited :
                    vibe.updateMask[q] = 0 /\ C27_RowNeighbour(wr[1], q)
        /\ vibe.scan.kind # "interior" => wr[1] \in vibe.scan.visited

\* C27: a scan of update writes the model of a pixel p only if
\* updateMask[p] is 0, or p is the neighbour in its row of a pixel q that an
\* interior scan visited and updateMask[q] is 0; a border scan writes
\* visited pixels only; and no scan changes the mask.
C27_UpdateFollowsMask ==
    /\ []C27_Writes
    /\ [][vibe.pc # "idle" => vibe'.updateMask = vibe.updateMask]_vars

\* an interior scan wrote a foreground pixel from its background neighbour
C27_Witness ==
    /\ vibe.scan.kind = "interior"
    /\ \E wr \in vibe.scan.writes :
          /\ vibe.updateMask[wr[1]] = 255
          /\ wr[1] \notin vibe.scan.visited

\* C28: init can put every value from 0 to N + 1 into the replace table, so
\* that update can overwrite either history image and each of the N samples
\* of a pixel, and update writes no sample slot outside 0 .. N - 1.
C28_ReplaceCoversAllSlots ==
    /\ ~vibe.isInitalized =>
          \A k \in 0 .. (vibe.numSamples + 1) :
              ENABLED (SeedTables /\ \E i \in DOMAIN vibe'.replaceIndex :
                                        vibe'.replaceIndex[i] = k)
    /\ \A wr \in vibe.scan.writes :
          wr[2] >= 2 => (wr[2] - 2) \in Idx(vibe.numSamples)

-----------------------------------------------------------------------------
(* VideoReader (codec/video_reader.cpp), the reader main owns: whether it   *)
(* is opened, the frame _avFrameRaw holds (0 for none, else the number of  *)
(* the decoded frame), and the position inside read.  What the libav calls *)
(* return is an input of each turn of read's loop.                         *)

\* video_reader.hpp: VideoReader::MAX_NUM_ERRORS
MAX_NUM_ERRORS == 500

\* the largest number of frames decoded
MaxDecoded == 2

\* no read made yet
NoRead == [returned |-> "none", handed |-> 0, hasGotFrame |-> FALSE,
           numErrors |-> 0]

\* lines 14-30 and 68-175: the reader after its constructor; open has set
\* _isOpened or returned early
VideoReader(isOpened) ==
    [isOpened |-> isOpened, frameCount |-> 0, avFrameRaw |-> 0,
     pc |-> "idle", numErrors |-> 0, hasGotFrame |-> FALSE, calls |-> 0,
     result |-> NoRead]

\* what a return of read leaves behind: the value returned ("crash" if the
\* call did not return) and the frame handed to the caller, 0 for none
readReturns(r, returned, handed) ==
    [r EXCEPT !.pc = "idle",
              !.result = [returned |-> returned, handed |-> handed,
                          hasGotFrame |-> r.hasGotFrame,
                          numErrors |-> r.numErrors]]

\* lines 256-406: the conversion of _avFrameRaw into the caller's frame.  It
\* can fail; with a frame in _avFrameRaw it can succeed, and then the
\* caller's frame is set.  An _avFrameRaw without a frame has no data and no
\* format: the conversion fails, or crashes on the Rockchip build.
postProcess(r) ==
    IF r.avFrameRaw = 0
    THEN { readReturns(r, "false", 0), readReturns(r, "crash", 0) }
    ELSE { readReturns(r, "false", 0), readReturns(r, "true", r.avFrameRaw) }

\* lines 251-253
readEnd(r) == postProcess(r)

\* lines 188-249: one turn of the loop, with what av_read_frame,
\* avcodec_send_packet and avcodec_receive_frame return.
\* avcodec_receive_frame unreferences _avFrameRaw before anything else.
readTurn(r, readErr, sendErr, receiveErr) ==
    IF readErr = "EAGAIN" THEN {r}
    ELSE IF readErr = "EOF" THEN {readReturns(r, "false", 0)}
    ELSE IF r.numErrors > MAX_NUM_ERRORS THEN readEnd(r)
    ELSE IF sendErr = "error" THEN {[r EXCEPT !.numErrors = @ + 1]}
    ELSE IF receiveErr = "EAGAIN" THEN {[r EXCEPT !.avFrameRaw = 0]}
    ELSE IF receiveErr = "EOF"
    THEN {readReturns([r EXCEPT !.avFrameRaw = 0], "false", 0)}
    ELSE IF receiveErr = "error"
    THEN {[r EXCEPT !.avFrameRaw = 0, !.numErrors = @ + 1]}
    ELSE readEnd([r EXCEPT !.avFrameRaw = r.frameCount + 1,
                           !.hasGotFrame = TRUE,
                           !.frameCount = @ + 1])

ReaderInit ==
    /\ cost = EmptyMat
    /\ maximize = FALSE
    /\ lap = Idle
    /\ params = CHOOSE p \in ParamSets : TRUE
    /\ TrackerInit
    /\ vibe = ViBeSequential(1, 0, 1)
    /\ driver \in { VideoReader(isOpened) : isOpened \in BOOLEAN }

\* lines 179-186: read is called; a reader that is not opened returns false
Read ==
    /\ driver.pc = "idle"
    /\ driver.result.returned # "crash"
    /\ driver.calls < MaxDecoded + 1
    /\ driver' = IF ~driver.isOpened
                 THEN readReturns([driver EXCEPT !.calls = @ + 1,
                                                 !.numErrors = 0,
                                                 !.hasGotFrame = FALSE],
                                  "false", 0)
                 ELSE [driver EXCEPT !.calls = @ + 1, !.pc = "loop",
                                     !.numErrors = 0, !.hasGotFrame = FALSE,
                                     !.result = NoRead]
    /\ UNCHANGED <<lapVars, trackerVars, vibe>>

\* lines 188-253
ReadTurn ==
    /\ driver.pc = "loop"
    /\ driver.frameCount < MaxDecoded
    /\ \E readErr \in {"ok", "EAGAIN", "EOF", "error"},
          sendErr \in {"ok", "error"},
          receiveErr \in {"ok", "EAGAIN", "EOF", "error"} :
          driver' \in readTurn(driver, readErr, sendErr, receiveErr)
    /\ UNCHANGED <<lapVars, trackerVars, vibe>>

ReaderNext == Read \/ ReadTurn

SpecReader == ReaderInit /\ [][ReaderNext]_vars

\* C21: a read that returns returns true only if it decoded a new frame in
\* this call; a read that has counted more than MAX_NUM_ERRORS errors
\* returns false and hands no frame to its caller.
C21_ReadFalseWithoutNewFrame ==
    (driver.pc = "idle" /\ driver.result.returned \in {"true", "false"}) =>
        /\ driver.result.returned = "true" => driver.result.hasGotFrame
        /\ driver.result.numErrors > MAX_NUM_ERRORS =>
              (driver.result.returned = "false" /\ driver.result.handed = 0)

=============================================================================
